---- MODULE Spec2Model ----
(***************************************************************************)
(* The ride API of rides/views.py, rides/serializers.py and                *)
(* rides/models.py: the ride and ride_event tables, the clock, and one     *)
(* request travelling through RideViewSet (guard, validation, lazy         *)
(* queryset, SQL statements, serialization), among the statements of other *)
(* requests.                                                               *)
(*                                                                         *)
(* Time is counted in hours.  Every SQL statement of the followed request  *)
(* is a step of its own: between two of them the clock may advance, events *)
(* may be inserted and the committed writes of other admins' requests      *)
(* (the Concurrent actions) may change the ride table.  They are seen      *)
(* through their writes only: their reads, and their statements that match *)
(* no row, cannot affect the followed one.                                 *)
(* The steps that send no statement (guard, validation, building the lazy  *)
(* queryset, serialization) are merged into the neighbouring step.         *)
(* In the state pc = "done" the response is being handed to the caller:    *)
(* the store is still the one the request's last statement saw.            *)
(***************************************************************************)
EXTENDS Integers, Sequences, FiniteSets, TLC

(* ------------------------------ bounds --------------------------------- *)

\* The clock stops after this many ticks.
MaxTicks == 2
\* At most this many RideEvent rows are ever inserted.
MaxEvents == 2
\* Rows per page (the page size, scaled down to the model's table).
PageSize == 2
\* At most this many Ride rows are ever inserted.
MaxCreated == 1

(* ----------------------------- constants ------------------------------- *)

\* timedelta(hours=24)
WindowHours == 24
\* The clock advances by a whole window at a time.
TickHours == WindowHours
\* The round trips test_minimal_number_of_queries_for_list allows.
MaxListQueries == 3

HTTP_200_OK == 200
HTTP_201_CREATED == 201
HTTP_204_NO_CONTENT == 204
HTTP_400_BAD_REQUEST == 400
HTTP_401_UNAUTHORIZED == 401
HTTP_403_FORBIDDEN == 403
HTTP_404_NOT_FOUND == 404
HTTP_500_INTERNAL_SERVER_ERROR == 500

\* Python's None, for the string-valued parameters and columns.
None == "<None>"

(* ------------------------------- users --------------------------------- *)

\* request.user: two rows of the user table and Django's AnonymousUser,
\* which has no role attribute (getattr(user, 'role', None) is None).
AdminUser == [username |-> "admin", email |-> "admin@example.com",
              role |-> "admin", is_authenticated |-> TRUE]
RiderUser == [username |-> "rider", email |-> "rider@example.com",
              role |-> "user", is_authenticated |-> TRUE]
AnonymousUser == [username |-> "", email |-> "",
                  role |-> None, is_authenticated |-> FALSE]

User == {AdminUser, RiderUser}
Callers == User \cup {AnonymousUser}

(* ------------------------------- rides --------------------------------- *)

\* The ride table the store starts with: rider is a username of User or
\* None (SET_NULL).  Rides 2 and 3 share their pickup_time.
RideRows ==
    (1 :> [status |-> "en-route", rider |-> "rider", pickup_latitude |-> 0,
           pickup_longitude |-> 0, pickup_time |-> 1])
    @@ (2 :> [status |-> "pickup", rider |-> "rider", pickup_latitude |-> 10,
              pickup_longitude |-> 0, pickup_time |-> 2])
    @@ (3 :> [status |-> "pickup", rider |-> None, pickup_latitude |-> 0,
              pickup_longitude |-> 10, pickup_time |-> 2])

\* The fields of Ride a request body must give: no null, blank or default.
RequiredFields == {"status", "pickup_latitude", "pickup_longitude"}

\* The fields of RideSerializer a request body can write (rider and driver
\* are read_only; the dropoff columns are not modelled).
WritableFields == RequiredFields \cup {"pickup_time"}

(* ------------------------------ requests ------------------------------- *)

\* The actions of ModelViewSet.
Actions ==
    {"list", "retrieve", "create", "update", "partial_update", "destroy"}
\* The actions of a detail route, which start with get_object.
DetailActions == {"retrieve", "update", "partial_update", "destroy"}
\* The actions that send a request body.
BodyActions == {"create", "update", "partial_update"}

\* What the followed behaviour's requests are drawn from: "read" varies the
\* query parameters of list over a ride table nobody writes; "write" sends
\* all six actions, with few parameters for list, among concurrent writers.
Workloads == {"read", "write"}

\* The values of ?ordering=.
OrderingInputs ==
    {None, "pickup_time", "-pickup_time", "distance", "-distance", "speed",
     "distance_km", "pickup_time,distance", "speed,pickup_time"}
\* <<lat, lng>>
CoordInputs ==
    { <<None, None>>, <<"0", None>>, <<"10", "0">>, <<"abc", "0">>,
      <<"nan", "0">>, <<"inf", "0">>, <<"1e1", "0">> }
\* <<status, rider__email>>
FilterInputs == { <<None, None>>, <<"pickup", "rider@example.com">> }
PageInputs == {1, 2}
\* The pk of a detail route: a ride of the initial table and the id the
\* first created ride gets.
PkInputs == {1, Cardinality(DOMAIN RideRows) + 1}

\* Request bodies: every writable field, and status alone.
FullData == [status |-> "dropoff", pickup_latitude |-> 0,
             pickup_longitude |-> 0, pickup_time |-> 1]
StatusOnly == [status |-> "dropoff"]
DataInputs == {FullData, StatusOnly}
\* The body of a request that sends none.
NoData == << >>

NoParams == [status |-> None, rider__email |-> None, ordering |-> None,
             lat |-> None, lng |-> None, page |-> 1]

Params(f, o, c, p) ==
    [status |-> f[1], rider__email |-> f[2], ordering |-> o, lat |-> c[1],
     lng |-> c[2], page |-> p]

\* The query parameters of the list requests of a workload.  "read": the
\* orderings named distance with every pair of coordinates; every ordering
\* without coordinates and with an unparseable one; some orderings with
\* every filter and page.  "write": two orderings with a filter that a write
\* can empty, and every page.
ListInputs(w) ==
    IF w = "read"
    THEN { Params(<<None, None>>, o, c, 1) :
              o \in {"distance", "distance_km"}, c \in CoordInputs }
         \cup { Params(<<None, None>>, o, c, 1) :
                  o \in OrderingInputs,
                  c \in {<<None, None>>, <<"abc", "0">>} }
         \cup { Params(f, o, <<"10", "0">>, p) :
                  f \in FilterInputs, p \in PageInputs,
                  o \in {None, "-distance", "speed",
                         "pickup_time,distance"} }
    ELSE { Params(f, o, <<"10", "0">>, p) :
              f \in {<<None, None>>, <<"en-route", None>>},
              o \in {None, "distance"}, p \in PageInputs }

\* The actions of the requests of a workload.
ActionInputs(w) == IF w = "read" THEN {"list", "retrieve"} ELSE Actions

NoRequest == [action |-> None, user |-> AnonymousUser, pk |-> 0,
              data |-> NoData, query_params |-> NoParams]

\* The queryset get_queryset builds and filter_queryset refines, before it is
\* run: the Prefetch threshold, the distance annotation, the ORDER BY terms.
NoQuerySet == [threshold |-> 0, annotated |-> FALSE, lat_f |-> 0, lng_f |-> 0,
               non_finite |-> FALSE, order_by |-> << >>]

NoResponse == [status |-> 0, error |-> FALSE, count |-> 0, results |-> << >>]

\* The serializer context of the generic views: no todays_threshold.
NoContext == [has_threshold |-> FALSE, todays_threshold |-> 0]

VARIABLES
    clock,          \* timezone.now(), in hours
    ride,           \* table ride: id_ride -> row
    next_ride_id,   \* the AutoField of ride
    ride_event,     \* table ride_event: a set of rows
    next_event_id,  \* the AutoField of ride_event
    workload,       \* the requests this behaviour draws from
    pc,             \* "idle" | "create" | "queryset" | "counted" | "paged"
                    \* | "fetched" | "prefetched" | "insert" | "done"
    request,        \* the request being served
    evaluated_at,   \* the clock when get_queryset read it
    queryset,       \* the request's lazy queryset
    threshold,      \* list's local variable threshold (views.py:117)
    count,          \* the paginator's count
    instances,      \* the Ride objects the request has fetched
    context,        \* the serializer context
    response,       \* the response
    queries         \* ride / ride_event statements the request has sent

vars == <<clock, ride, next_ride_id, ride_event, next_event_id, workload, pc,
          request, evaluated_at, queryset, threshold, count, instances,
          context, response, queries>>

store == <<ride, next_ride_id, ride_event, next_event_id>>

\* The state of the followed request, pc aside.
handler == <<request, evaluated_at, queryset, threshold, count, instances,
             context, response, queries>>

(* --------------------------- pure functions ---------------------------- *)

\* Faulty variant of has_permission: the role is not compared.
has_permission_any_role(user) == user.is_authenticated

\* IsAdminRole.has_permission
has_permission(user) ==
    /\ user.is_authenticated
    /\ user.role = "admin"

\* The statuses a denied request can be answered with.  An authenticated
\* caller gets 403.  For a caller without identity it depends on the
\* authentication classes of the project's settings: 401 when the first of
\* them names a WWW-Authenticate header, 403 otherwise; the test of the
\* repository accepts both.
DeniedStatus(user) ==
    IF user.is_authenticated
    THEN {HTTP_403_FORBIDDEN}
    ELSE {HTTP_401_UNAUTHORIZED, HTTP_403_FORBIDDEN}

\* RideViewSet._get_todays_threshold
_get_todays_threshold(now) == now - WindowHours

\* What may stand before and after 'distance' in an ordering value.
Affixes == {"", "-", "x", "_km", "pickup_time,", ",pickup_time"}

\* Faulty variant of ContainsDistance: ordering == 'distance'.
ContainsDistanceExact(ordering) == ordering = "distance"

\* 'distance' in ordering: the substring test, for the values made of
\* 'distance' and Affixes.
ContainsDistance(ordering) ==
    \E before \in Affixes, after \in Affixes :
        ordering = before \o "distance" \o after

\* float(s): ok is FALSE when float raises ValueError; nan is TRUE when it
\* returns a NaN, inf when it returns an infinity.  The literals are those
\* listed; the finite ones have whole values.
ParseFloat(s) ==
    CASE s \in {"0", "0.0", "-0", " 0 "} ->
            [nan |-> FALSE, inf |-> FALSE, ok |-> TRUE, val |-> 0]
      [] s \in {"10", "1e1", " 10 ", "+10", "10.0"} ->
            [nan |-> FALSE, inf |-> FALSE, ok |-> TRUE, val |-> 10]
      [] s \in {"-3", "-3.0"} ->
            [nan |-> FALSE, inf |-> FALSE, ok |-> TRUE, val |-> 0 - 3]
      [] s \in {"nan", "NaN", "-nan"} ->
            [nan |-> TRUE, inf |-> FALSE, ok |-> TRUE, val |-> 0]
      [] s \in {"inf", "-inf", "Infinity", "INF"} ->
            [nan |-> FALSE, inf |-> TRUE, ok |-> TRUE, val |-> 0]
      [] s \in {"abc", "", "ten", "1,5", "--1"} ->
            [nan |-> FALSE, inf |-> FALSE, ok |-> FALSE, val |-> 0]

\* Faulty variant of ValidateList: the float() check is left out.
ValidateListPresenceOnly(params) ==
    IF ContainsDistance(params.ordering)
       /\ (params.lat = None \/ params.lng = None)
    THEN "missing"
    ELSE "ok"

\* The validation at the head of RideViewSet.list: "ok", "missing" or
\* "invalid".
ValidateList(params) ==
    IF ContainsDistance(params.ordering)
    THEN IF params.lat = None \/ params.lng = None
         THEN "missing"
         ELSE IF ~ParseFloat(params.lat).ok \/ ~ParseFloat(params.lng).ok
              THEN "invalid"
              ELSE "ok"
    ELSE "ok"

\* get_queryset: the Prefetch threshold, the distance annotation and
\* order_by('id_ride').
get_queryset(params, now) ==
    LET lat == params.lat
        lng == params.lng
        parsed == /\ lat # None
                  /\ lng # None
                  /\ ParseFloat(lat).ok
                  /\ ParseFloat(lng).ok
    IN  [threshold |-> _get_todays_threshold(now),
         annotated |-> parsed,
         lat_f |-> IF parsed THEN ParseFloat(lat).val ELSE 0,
         lng_f |-> IF parsed THEN ParseFloat(lng).val ELSE 0,
         non_finite |-> parsed /\ (\/ ParseFloat(lat).nan
                                   \/ ParseFloat(lat).inf
                                   \/ ParseFloat(lng).nan
                                   \/ ParseFloat(lng).inf),
         order_by |-> <<"id_ride">>]

\* The terms OrderingFilter accepts: ordering_fields, each with or without
\* a leading '-'.
ValidTerms == {"pickup_time", "-pickup_time", "distance", "-distance"}

\* The terms an ordering value is made of, besides the valid ones.
TermInputs == ValidTerms \cup {"speed", "distance_km"}

\* params.split(','): the terms of an ordering value of at most two terms of
\* TermInputs.
SplitOrdering(ordering) ==
    IF \E a \in TermInputs, b \in TermInputs : ordering = a \o "," \o b
    THEN CHOOSE t \in TermInputs \X TermInputs :
            ordering = t[1] \o "," \o t[2]
    ELSE <<ordering>>

\* OrderingFilter.filter_queryset with ordering_fields: the invalid terms are
\* dropped; the valid ones, if any, replace the queryset's order_by; with
\* none left the queryset is left alone.
OrderingFilter(qs, params) ==
    LET ordering == SelectSeq(SplitOrdering(params.ordering),
                              LAMBDA term : term \in ValidTerms)
    IN  IF params.ordering # None /\ Len(ordering) > 0
        THEN [qs EXCEPT !.order_by = ordering]
        ELSE qs

\* DjangoFilterBackend with filterset_fields: does the row pass?
Matches(row, params) ==
    /\ params.status # None => row.status = params.status
    /\ params.rider__email # None =>
           \E u \in User : /\ u.username = row.rider
                           /\ u.email = params.rider__email

\* Faulty variant of Distance: lng_diff is left out.
DistanceLatitudeOnly(row, qs) ==
    (row.pickup_latitude - qs.lat_f) * (row.pickup_latitude - qs.lat_f)

\* The annotation distance = lat_diff + lng_diff of a row.
Distance(row, qs) ==
    (row.pickup_latitude - qs.lat_f) * (row.pickup_latitude - qs.lat_f)
    + (row.pickup_longitude - qs.lng_f) * (row.pickup_longitude - qs.lng_f)

\* The value one ORDER BY term sorts a row by (a descending term negates
\* it).  A NaN or infinite coordinate makes every row's distance the same
\* value.
SortKey(table, id, qs, term) ==
    CASE term = "id_ride" -> id
      [] term = "pickup_time" -> table[id].pickup_time
      [] term = "-pickup_time" -> 0 - table[id].pickup_time
      [] term = "distance" ->
            IF qs.non_finite THEN 0 ELSE Distance(table[id], qs)
      [] term = "-distance" ->
            IF qs.non_finite THEN 0 ELSE 0 - Distance(table[id], qs)

\* May row a stand before row b under the ORDER BY terms from the i-th on?
RECURSIVE MayPrecede(_, _, _, _, _)
MayPrecede(table, a, b, qs, i) ==
    IF i > Len(qs.order_by) THEN TRUE
    ELSE LET ka == SortKey(table, a, qs, qs.order_by[i])
             kb == SortKey(table, b, qs, qs.order_by[i])
         IN  \/ ka < kb
             \/ ka = kb /\ MayPrecede(table, a, b, qs, i + 1)

RowOrders(S) ==
    { f \in [1..Cardinality(S) -> S] :
        \A i, j \in 1..Cardinality(S) : i # j => f[i] # f[j] }

\* Every row order the store may answer the queryset's ORDER BY with: rows
\* with equal keys come in any order.
OrderedRows(table, ids, qs) ==
    { f \in RowOrders(ids) :
        \A i \in 1..(Cardinality(ids) - 1) :
            MayPrecede(table, f[i], f[i + 1], qs, 1) }

\* Faulty variant of Prefetched: created_at__gt instead of created_at__gte.
PrefetchedStrictlyAfter(events, id, since) ==
    { e \in events : e.ride = id /\ e.created_at > since }

\* The rows of recent_events_qs (created_at__gte=threshold) of one ride.
Prefetched(events, id, since) ==
    { e \in events : e.ride = id /\ e.created_at >= since }

\* The Ride object a SELECT on ride yields for a row, before the prefetch.
Instance(table, id) ==
    [status |-> table[id].status,
     rider |-> table[id].rider,
     pickup_latitude |-> table[id].pickup_latitude,
     pickup_longitude |-> table[id].pickup_longitude,
     pickup_time |-> table[id].pickup_time,
     id_ride |-> id,
     has_attr |-> FALSE,
     todays_ride_events |-> {}]

\* The object after the queryset's prefetch: Prefetch(to_attr=...) sets the
\* attribute on every ride, to an empty list when it has no recent event.
RideObject(events, obj, qs) ==
    [obj EXCEPT !.has_attr = TRUE,
                !.todays_ride_events =
                    Prefetched(events, obj.id_ride, qs.threshold)]

\* Faulty variant of get_todays_ride_events: 'if not events' instead of
\* 'if events is None'.
get_todays_ride_events_if_falsy(events, obj, ctx) ==
    IF ~obj.has_attr \/ obj.todays_ride_events = {}
    THEN IF ~ctx.has_threshold
         THEN [data |-> {}, queries |-> 0]
         ELSE [data |-> { e.id_ride_event :
                            e \in Prefetched(events, obj.id_ride,
                                             ctx.todays_threshold) },
               queries |-> 1]
    ELSE [data |-> { e.id_ride_event : e \in obj.todays_ride_events },
          queries |-> 0]

\* RideSerializer.get_todays_ride_events: the ids of the events it returns
\* and the number of statements the call sent.
get_todays_ride_events(events, obj, ctx) ==
    IF ~obj.has_attr
    THEN IF ~ctx.has_threshold
         THEN [data |-> {}, queries |-> 0]
         ELSE [data |-> { e.id_ride_event :
                            e \in Prefetched(events, obj.id_ride,
                                             ctx.todays_threshold) },
               queries |-> 1]
    ELSE [data |-> { e.id_ride_event : e \in obj.todays_ride_events },
          queries |-> 0]

\* RideSerializer on one ride.
Serialize(events, obj, ctx) ==
    [status |-> obj.status,
     rider |-> obj.rider,
     pickup_latitude |-> obj.pickup_latitude,
     pickup_longitude |-> obj.pickup_longitude,
     pickup_time |-> obj.pickup_time,
     id_ride |-> obj.id_ride,
     todays_ride_events |-> get_todays_ride_events(events, obj, ctx).data]

\* The statements the serializer sends for a list of rides.
RECURSIVE SerializerQueries(_, _, _, _)
SerializerQueries(events, objs, ctx, i) ==
    IF i > Len(objs) THEN 0
    ELSE get_todays_ride_events(events, objs[i], ctx).queries
         + SerializerQueries(events, objs, ctx, i + 1)

\* serializer.is_valid: a partial update may leave any field out.
is_valid(data, partial) == partial \/ RequiredFields \subseteq DOMAIN data

\* The row with the validated fields of the body written over it.
Apply(row, data) ==
    [f \in DOMAIN row |->
        IF f \in DOMAIN data /\ f \in WritableFields THEN data[f] ELSE row[f]]

\* The row of a Ride object.
RowOf(obj) ==
    [status |-> obj.status,
     rider |-> obj.rider,
     pickup_latitude |-> obj.pickup_latitude,
     pickup_longitude |-> obj.pickup_longitude,
     pickup_time |-> obj.pickup_time]

\* The row Ride.objects.create(**validated_data) inserts: rider is NULL.
NewRow(data) ==
    [status |-> data.status,
     rider |-> None,
     pickup_latitude |-> data.pickup_latitude,
     pickup_longitude |-> data.pickup_longitude,
     pickup_time |-> data.pickup_time]

\* DELETE FROM ride WHERE id_ride = id
WithoutRide(table, id) == [k \in DOMAIN table \ {id} |-> table[k]]

\* DELETE FROM ride_event WHERE id_ride = id
WithoutEventsOf(events, id) == { e \in events : e.ride # id }

Min(a, b) == IF a <= b THEN a ELSE b

\* Paginator.num_pages: ceil(count / per_page), and 1 for an empty table.
NumPages(n) ==
    IF n = 0 THEN 1 ELSE (n + PageSize - 1) \div PageSize

\* The last id a created ride may get.
MaxRideId == Cardinality(DOMAIN RideRows) + MaxCreated

(* ------------------------------- Init ---------------------------------- *)

Init ==
    /\ clock = 0
    /\ ride = RideRows
    /\ next_ride_id = Cardinality(DOMAIN RideRows) + 1
    /\ ride_event = {}
    /\ next_event_id = 1
    /\ workload \in Workloads
    /\ pc = "idle"
    /\ request = NoRequest
    /\ evaluated_at = 0
    /\ queryset = NoQuerySet
    /\ threshold = 0
    /\ count = 0
    /\ instances = << >>
    /\ context = NoContext
    /\ response = NoResponse
    /\ queries = 0

(* ---------------------------- environment ------------------------------ *)

\* Time passes (in the "write" workload every event is recent).
Tick ==
    /\ workload = "read"
    /\ pc # "done"
    /\ clock + TickHours <= MaxTicks * TickHours
    /\ clock' = clock + TickHours
    /\ UNCHANGED <<store, workload, pc, handler>>

\* RideEvent.objects.create(ride=...): created_at defaults to timezone.now.
CreateEvent ==
    /\ pc # "done"
    /\ next_event_id <= MaxEvents
    /\ \E id \in DOMAIN ride :
          ride_event' = ride_event \cup
              { [id_ride_event |-> next_event_id, ride |-> id,
                 created_at |-> clock] }
    /\ next_event_id' = next_event_id + 1
    /\ UNCHANGED <<clock, ride, next_ride_id, workload, pc, handler>>

\* The INSERT of another admin's create.  An id is kept for the followed
\* request's own INSERT once it has passed validation.
ConcurrentCreate ==
    /\ workload = "write"
    /\ pc # "done"
    /\ next_ride_id + (IF pc = "create" THEN 1 ELSE 0) <= MaxRideId
    /\ ride' = (next_ride_id :> NewRow(FullData)) @@ ride
    /\ next_ride_id' = next_ride_id + 1
    /\ UNCHANGED <<clock, ride_event, next_event_id, workload, pc, handler>>

\* The rows a ride of the table, present or deleted, can have had when a
\* request fetched it: the one it was inserted with and the updated one.
EarlierRows(id) ==
    LET inserted == IF id \in DOMAIN RideRows THEN RideRows[id]
                    ELSE NewRow(FullData)
    IN  {inserted, Apply(inserted, FullData)}

\* The instance.save() of another admin's update or partial_update, which
\* fetched the ride earlier: an UPDATE of every column with the values of
\* that object and the body; when the ride has been deleted since, the
\* UPDATE matches no row and save() sends an INSERT of the same row, which
\* puts the ride back.
ConcurrentUpdate ==
    /\ workload = "write"
    /\ pc # "done"
    /\ \E id \in { k \in PkInputs : k < next_ride_id },
          data \in DataInputs :
          \E stale \in EarlierRows(id) :
             ride' = IF id \in DOMAIN ride
                     THEN [ride EXCEPT ![id] = Apply(stale, data)]
                     ELSE (id :> Apply(stale, data)) @@ ride
    /\ UNCHANGED <<clock, next_ride_id, ride_event, next_event_id, workload,
                   pc, handler>>

\* The DELETEs of another admin's destroy, in their transaction.
ConcurrentDestroy ==
    /\ workload = "write"
    /\ pc # "done"
    /\ \E id \in PkInputs \cap DOMAIN ride :
          /\ ride' = WithoutRide(ride, id)
          /\ ride_event' = WithoutEventsOf(ride_event, id)
    /\ UNCHANGED <<clock, next_ride_id, next_event_id, workload, pc, handler>>

(* ------------------------------ requests ------------------------------- *)

\* permission_denied: the guard's refusal.
Deny(req) ==
    /\ pc' = "done"
    /\ \E status \in DeniedStatus(req.user) :
          response' = [NoResponse EXCEPT !.status = status, !.error = TRUE]
    /\ UNCHANGED <<evaluated_at, queryset>>

\* The two Response({'error': ...}, status=400) of list, and the
\* ValidationError of a body that is not valid.
BadRequest ==
    /\ pc' = "done"
    /\ response' = [NoResponse EXCEPT !.status = HTTP_400_BAD_REQUEST,
                                      !.error = TRUE]
    /\ UNCHANGED <<evaluated_at, queryset>>

\* self.filter_queryset(self.get_queryset())
BuildQuerySet(req) ==
    /\ pc' = "queryset"
    /\ evaluated_at' = clock
    /\ queryset' = OrderingFilter(get_queryset(req.query_params, clock),
                                  req.query_params)
    /\ UNCHANGED response

\* A request arrives: the guard; then list validates its parameters and
\* create its body; then every handler but create builds its queryset.
Serve(req) ==
    /\ pc = "idle"
    /\ request' = req
    /\ IF ~has_permission(req.user)
       THEN Deny(req)
       ELSE IF req.action = "list"
            THEN IF ValidateList(req.query_params) # "ok"
                 THEN BadRequest
                 ELSE BuildQuerySet(req)
            ELSE IF req.action = "create"
                 THEN IF ~is_valid(req.data, FALSE)
                      THEN BadRequest
                      ELSE /\ pc' = "create"
                           /\ UNCHANGED <<evaluated_at, queryset, response>>
                 ELSE BuildQuerySet(req)
    /\ UNCHANGED <<clock, store, workload, threshold, count, instances,
                   context, queries>>

Dispatch ==
    \/ \E u \in Callers, q \in ListInputs(workload) :
          Serve([action |-> "list", user |-> u, pk |-> 0, data |-> NoData,
                 query_params |-> q])
    \/ \E u \in Callers, a \in DetailActions \cap ActionInputs(workload),
          k \in PkInputs,
          d \in DataInputs \cup {NoData} :
          /\ d # NoData <=> a \in BodyActions
          /\ Serve([action |-> a, user |-> u, pk |-> k, data |-> d,
                    query_params |-> NoParams])
    \/ \E u \in Callers, d \in DataInputs :
          /\ "create" \in ActionInputs(workload)
          /\ next_ride_id <= MaxRideId
          /\ Serve([action |-> "create", user |-> u, pk |-> 0, data |-> d,
                    query_params |-> NoParams])

\* The ids of the rides the request's filters select now.
Filtered == { id \in DOMAIN ride : Matches(ride[id], request.query_params) }

\* raise NotFound
NotFound ==
    /\ pc' = "done"
    /\ response' = [NoResponse EXCEPT !.status = HTTP_404_NOT_FOUND,
                                      !.error = TRUE]

\* context={'todays_threshold': threshold}
ListContext(since) == [has_threshold |-> TRUE, todays_threshold |-> since]

\* The paginated response of list for the objects of its page.
Paginated(objs, since, total) ==
    /\ pc' = "done"
    /\ context' = ListContext(since)
    /\ response' = [status |-> HTTP_200_OK,
                    error |-> FALSE,
                    count |-> total,
                    results |-> [i \in 1..Len(objs) |->
                                    Serialize(ride_event, objs[i],
                                              ListContext(since))]]

\* list, views.py:117-119: the second clock reading, then the paginator's
\* SELECT COUNT(*).  A page past the last raises before any serializer is
\* built; the slice [0:0] of an empty table sends no statement.
ListCount ==
    /\ pc = "queryset"
    /\ request.action = "list"
    /\ threshold' = _get_todays_threshold(clock)
    /\ count' = Cardinality(Filtered)
    /\ queries' = queries + 1
    /\ IF request.query_params.page > NumPages(Cardinality(Filtered))
       THEN NotFound /\ UNCHANGED context
       ELSE IF Cardinality(Filtered) = 0
            THEN Paginated(<< >>, _get_todays_threshold(clock), 0)
            ELSE /\ pc' = "counted"
                 /\ UNCHANGED <<context, response>>
    /\ UNCHANGED <<clock, store, workload, request, evaluated_at, queryset,
                   instances>>

\* list(self.page): the SELECT of the page, with the queryset's ORDER BY and
\* the LIMIT and OFFSET the paginator derived from its count.  No row, no
\* prefetch.
ListPage ==
    /\ pc = "counted"
    /\ \E rows \in OrderedRows(ride, Filtered, queryset) :
          LET bottom == (request.query_params.page - 1) * PageSize
              top == Min(bottom + PageSize, count)
              page == SubSeq(rows, bottom + 1, Min(top, Len(rows)))
          IN  IF Len(page) = 0
              THEN /\ Paginated(<< >>, threshold, count)
                   /\ UNCHANGED instances
              ELSE /\ pc' = "paged"
                   /\ instances' = [i \in 1..Len(page) |->
                                       Instance(ride, page[i])]
                   /\ UNCHANGED <<context, response>>
    /\ queries' = queries + 1
    /\ UNCHANGED <<clock, store, workload, request, evaluated_at, queryset,
                   threshold, count>>

\* The prefetch of the page, one SELECT on ride_event, and the serializer
\* with context={'todays_threshold': threshold}.
ListEvents ==
    /\ pc = "paged"
    /\ LET objs == [i \in 1..Len(instances) |->
                        RideObject(ride_event, instances[i], queryset)]
       IN  /\ instances' = objs
           /\ Paginated(objs, threshold, count)
           /\ queries' = queries + 1
                           + SerializerQueries(ride_event, objs,
                                               ListContext(threshold), 1)
    /\ UNCHANGED <<clock, store, workload, request, evaluated_at, queryset,
                   threshold, count>>

\* get_object: the SELECT of the ride with the pk of the route.
GetObject ==
    /\ pc = "queryset"
    /\ request.action \in DetailActions
    /\ queries' = queries + 1
    /\ IF request.pk \in Filtered
       THEN /\ pc' = "fetched"
            /\ instances' = <<Instance(ride, request.pk)>>
            /\ UNCHANGED response
       ELSE /\ NotFound
            /\ UNCHANGED instances
    /\ UNCHANGED <<clock, store, workload, request, evaluated_at, queryset,
                   threshold, count, context>>

\* get_object: the prefetch of the fetched ride, one SELECT on ride_event.
PrefetchObject ==
    /\ pc = "fetched"
    /\ pc' = "prefetched"
    /\ instances' = <<RideObject(ride_event, instances[1], queryset)>>
    /\ queries' = queries + 1
    /\ UNCHANGED <<clock, store, workload, request, evaluated_at, queryset,
                   threshold, count, context, response>>

\* RetrieveModelMixin.retrieve after get_object: the serializer with the
\* view's default context.
ExecuteRetrieve ==
    /\ pc = "prefetched"
    /\ request.action = "retrieve"
    /\ pc' = "done"
    /\ response' = [NoResponse EXCEPT
                       !.status = HTTP_200_OK,
                       !.count = 1,
                       !.results = <<Serialize(ride_event, instances[1],
                                               NoContext)>>]
    /\ queries' = queries
                    + get_todays_ride_events(ride_event, instances[1],
                                             NoContext).queries
    /\ UNCHANGED <<clock, store, workload, request, evaluated_at, queryset,
                   threshold, count, instances, context>>

\* CreateModelMixin.create after is_valid: the INSERT, and the new object
\* through the serializer with the view's default context.
ExecuteCreate ==
    /\ pc = "create"
    /\ pc' = "done"
    /\ ride' = (next_ride_id :> NewRow(request.data)) @@ ride
    /\ next_ride_id' = next_ride_id + 1
    /\ instances' = <<Instance(ride', next_ride_id)>>
    /\ response' = [NoResponse EXCEPT
                       !.status = HTTP_201_CREATED,
                       !.count = 1,
                       !.results = <<Serialize(ride_event, instances'[1],
                                               NoContext)>>]
    /\ queries' = queries + 1
    /\ UNCHANGED <<clock, ride_event, next_event_id, workload, request,
                   evaluated_at, queryset, threshold, count, context>>

\* The response of update and partial_update for the saved object.
Updated(obj) ==
    /\ pc' = "done"
    /\ instances' = <<obj>>
    /\ response' = [NoResponse EXCEPT
                       !.status = HTTP_200_OK,
                       !.count = 1,
                       !.results = <<Serialize(ride_event, obj, NoContext)>>]

\* The fetched object with the validated fields of the body set on it.
WithData(obj, data) ==
    [obj EXCEPT !.status = Apply(RowOf(obj), data).status,
                !.pickup_latitude = Apply(RowOf(obj), data).pickup_latitude,
                !.pickup_longitude = Apply(RowOf(obj), data).pickup_longitude,
                !.pickup_time = Apply(RowOf(obj), data).pickup_time]

\* UpdateModelMixin.update and partial_update after get_object: is_valid,
\* then instance.save(), an UPDATE of every column with the object's values.
\* When the UPDATE matches no row, save() goes on to an INSERT.
ExecuteUpdate ==
    /\ pc = "prefetched"
    /\ request.action \in {"update", "partial_update"}
    /\ IF ~is_valid(request.data, request.action = "partial_update")
       THEN /\ pc' = "done"
            /\ response' = [NoResponse EXCEPT
                               !.status = HTTP_400_BAD_REQUEST,
                               !.error = TRUE]
            /\ UNCHANGED <<ride, instances, queries>>
       ELSE LET obj == WithData(instances[1], request.data)
            IN  /\ queries' = queries + 1
                /\ IF request.pk \in DOMAIN ride
                   THEN /\ ride' = [ride EXCEPT ![request.pk] = RowOf(obj)]
                        /\ Updated(obj)
                   ELSE /\ pc' = "insert"
                        /\ instances' = <<obj>>
                        /\ UNCHANGED <<ride, response>>
    /\ UNCHANGED <<clock, next_ride_id, ride_event, next_event_id, workload,
                   request, evaluated_at, queryset, threshold, count, context>>

\* instance.save() after an UPDATE that matched no row: the INSERT of the
\* object with its id.  When another request has put the ride back since,
\* the INSERT raises IntegrityError, which nothing handles.
ExecuteInsert ==
    /\ pc = "insert"
    /\ queries' = queries + 1
    /\ IF request.pk \in DOMAIN ride
       THEN /\ pc' = "done"
            /\ response' = [NoResponse EXCEPT
                               !.status = HTTP_500_INTERNAL_SERVER_ERROR,
                               !.error = TRUE]
            /\ UNCHANGED <<ride, instances>>
       ELSE /\ ride' = (request.pk :> RowOf(instances[1])) @@ ride
            /\ Updated(instances[1])
    /\ UNCHANGED <<clock, next_ride_id, ride_event, next_event_id, workload,
                   request, evaluated_at, queryset, threshold, count, context>>

\* DestroyModelMixin.destroy after get_object: instance.delete(), the DELETE
\* of the ride's events and the DELETE of the ride in one transaction.
ExecuteDestroy ==
    /\ pc = "prefetched"
    /\ request.action = "destroy"
    /\ pc' = "done"
    /\ ride' = WithoutRide(ride, request.pk)
    /\ ride_event' = WithoutEventsOf(ride_event, request.pk)
    /\ response' = [NoResponse EXCEPT !.status = HTTP_204_NO_CONTENT]
    /\ queries' = queries + 2
    /\ UNCHANGED <<clock, next_ride_id, next_event_id, workload, request,
                   evaluated_at, queryset, threshold, count, instances,
                   context>>

\* The response has been sent; the next request starts afresh.
Finish ==
    /\ pc = "done"
    /\ pc' = "idle"
    /\ request' = NoRequest
    /\ evaluated_at' = 0
    /\ queryset' = NoQuerySet
    /\ threshold' = 0
    /\ count' = 0
    /\ instances' = << >>
    /\ context' = NoContext
    /\ response' = NoResponse
    /\ queries' = 0
    /\ UNCHANGED <<clock, store, workload>>

Next ==
    \/ Tick
    \/ CreateEvent
    \/ ConcurrentCreate
    \/ ConcurrentUpdate
    \/ ConcurrentDestroy
    \/ Dispatch
    \/ ListCount
    \/ ListPage
    \/ ListEvents
    \/ GetObject
    \/ PrefetchObject
    \/ ExecuteRetrieve
    \/ ExecuteCreate
    \/ ExecuteUpdate
    \/ ExecuteInsert
    \/ ExecuteDestroy
    \/ Finish

Spec == Init /\ [][Next]_vars

(* ------------------------------ claims --------------------------------- *)

\* The caller is authenticated and holds the privileged role.
IsAdmin(user) == user.is_authenticated /\ user.role = "admin"

\* The response of a request is being handed back.
Done(action) == pc = "done" /\ request.action = action

\* A list request that passed the guard has been answered.
AdminListDone == Done("list") /\ IsAdmin(request.user)

\* The ids of the rides of the response, in order.
ResultIds == [i \in 1..Len(response.results) |-> response.results[i].id_ride]

\* The coordinate strings of CoordInputs that Python's float() parses, the
\* finite ones among them, and their values.
Parseable(s) == s \in {"0", "10", "1e1", "nan", "inf"}
Finite(s) == s \in {"0", "10", "1e1"}
FloatOf(s) == IF s \in {"10", "1e1"} THEN 10 ELSE 0

\* The ordering values of OrderingInputs in which 'distance' occurs.
MentionsDistance(ordering) ==
    ordering \in {"distance", "-distance", "distance_km",
                  "pickup_time,distance"}

\* lat or lng is absent, or float() cannot parse it.
CoordinatesUnusable ==
    \/ request.query_params.lat = None
    \/ request.query_params.lng = None
    \/ ~Parseable(request.query_params.lat)
    \/ ~Parseable(request.query_params.lng)

\* (pickup_latitude - lat)^2 + (pickup_longitude - lng)^2 of a ride, as a
\* row, a fetched object or an entry of the response.
SquaredDistance(r) ==
    LET dlat == r.pickup_latitude - FloatOf(request.query_params.lat)
        dlng == r.pickup_longitude - FloatOf(request.query_params.lng)
    IN  dlat * dlat + dlng * dlng

\* The rides the request's filters select in the present table.
Selected ==
    { id \in DOMAIN ride :
        /\ request.query_params.status # None =>
               ride[id].status = request.query_params.status
        /\ request.query_params.rider__email # None =>
               /\ ride[id].rider = "rider"
               /\ request.query_params.rider__email = "rider@example.com" }

\* C1: every ride of a successful list response carries exactly the events
\* of that ride created at or after (the instant get_queryset read the clock
\* - 24h): none older, none of another ride, none missing, and an empty list
\* when there is none.  The events are those of the store at the request's
\* last statement, the SELECT on ride_event.
C1_EventsExactlyTheWindow ==
    (Done("list") /\ response.status = HTTP_200_OK) =>
        \A i \in 1..Len(response.results) :
            response.results[i].todays_ride_events =
                { e.id_ride_event :
                    e \in { x \in ride_event :
                              /\ x.ride = response.results[i].id_ride
                              /\ x.created_at >= evaluated_at - WindowHours } }

\* A page holding a ride with one event inside the window and one older.
C1_Witness ==
    /\ Done("list")
    /\ response.status = HTTP_200_OK
    /\ \E i \in 1..Len(response.results) :
          /\ response.results[i].todays_ride_events # {}
          /\ \E x \in ride_event :
                /\ x.ride = response.results[i].id_ride
                /\ x.created_at < evaluated_at - WindowHours
          /\ \E j \in 1..Len(response.results) :
                response.results[j].todays_ride_events = {}

\* C2 (state part): a request is denied (401 or 403) iff its caller is not an
\* authenticated admin, whatever the action; a denied request is never
\* answered 400, has sent no statement, carries no result, fetched no object
\* and never had a queryset built; only admins' requests get past the guard.
C2_GuardState ==
    /\ pc = "done" =>
          /\ response.status \in {HTTP_401_UNAUTHORIZED, HTTP_403_FORBIDDEN}
                <=> ~IsAdmin(request.user)
          /\ ~IsAdmin(request.user) =>
                /\ response.status # HTTP_400_BAD_REQUEST
                /\ queries = 0
                /\ response.results = << >>
                /\ instances = << >>
                /\ queryset = NoQuerySet
    /\ pc \notin {"idle", "done"} => IsAdmin(request.user)

\* C2 (step part): the step that denies a request, of any action, changes
\* neither the store nor the clock.
C2_GuardStep ==
    (pc = "idle" /\ request'.action # None /\ ~IsAdmin(request'.user)) =>
        (pc' = "done" /\ UNCHANGED <<clock, store>>)

\* C2: the guard allows iff authenticated and role = 'admin', on every
\* action (list, retrieve, create, update, partial_update, destroy), before
\* validation and before any query, and changes no state.
C2_GuardFirst == []C2_GuardState /\ [][C2_GuardStep]_vars

\* A non-admin's update of an existing ride with a valid body, and its
\* refusal.
C2_Witness ==
    /\ Done("update")
    /\ request.user = RiderUser
    /\ request.pk \in DOMAIN ride
    /\ request.data = FullData
    /\ response.status = HTTP_403_FORBIDDEN

\* C3: a list request ordering by distance or -distance with lat or lng
\* absent is answered 400 with an error body, no results, and no statement
\* sent to the store (no queryset was even built).
C3_MissingCoordinates ==
    ( /\ AdminListDone
      /\ request.query_params.ordering \in {"distance", "-distance"}
      /\ (request.query_params.lat = None \/ request.query_params.lng = None) )
    => /\ response.status = HTTP_400_BAD_REQUEST
       /\ response.error
       /\ response.results = << >>
       /\ queries = 0
       /\ queryset = NoQuerySet

\* distance with lat given and lng absent, refused.
C3_Witness ==
    /\ AdminListDone
    /\ request.query_params.ordering = "distance"
    /\ request.query_params.lat = "0"
    /\ request.query_params.lng = None
    /\ response.status = HTTP_400_BAD_REQUEST

\* C4: a successful list request has sent at most 3 statements (count, page,
\* events), and exactly 3 when its page holds a ride: the serializer's
\* per-row query is never sent, also for rides without a recent event.
C4_ConstantRoundTrips ==
    (Done("list") /\ response.status = HTTP_200_OK) =>
        /\ queries <= MaxListQueries
        /\ Len(response.results) > 0 => queries = MaxListQueries

\* A full page of which one ride has recent events and another has none.
C4_Witness ==
    /\ Done("list")
    /\ response.status = HTTP_200_OK
    /\ Len(response.results) = PageSize
    /\ \E i, j \in 1..Len(response.results) :
          /\ response.results[i].todays_ride_events = {}
          /\ response.results[j].todays_ride_events # {}
    /\ queries = MaxListQueries

\* The value the requested ordering sorts a returned ride by first.
PrimaryKey(r) ==
    CASE request.query_params.ordering
            \in {"pickup_time", "-pickup_time", "pickup_time,distance",
                 "speed,pickup_time"} ->
            r.pickup_time
      [] /\ request.query_params.ordering \in {"distance", "-distance"}
         /\ Finite(request.query_params.lat)
         /\ Finite(request.query_params.lng) -> SquaredDistance(r)
      [] OTHER -> 0

\* C5: in every successful list response, two rides with equal primary sort
\* key appear in ascending id_ride order.
C5_TieBreakById ==
    (Done("list") /\ response.status = HTTP_200_OK) =>
        \A i, j \in 1..Len(response.results) :
            ( /\ i < j
              /\ PrimaryKey(response.results[i])
                    = PrimaryKey(response.results[j]) )
                => ResultIds[i] < ResultIds[j]

\* The request orders by distance or -distance and gives finite lat and lng.
OrdersByDistance ==
    /\ request.action = "list"
    /\ request.query_params.ordering \in {"distance", "-distance"}
    /\ request.query_params.lat # None
    /\ request.query_params.lng # None
    /\ Finite(request.query_params.lat)
    /\ Finite(request.query_params.lng)

\* C6 (state part): a list request (of an admin) with ordering=distance and
\* finite lat and lng is answered 200 on its first page and 200 or 404 on a
\* later one; a 200 page is in non-decreasing squared distance, and in
\* non-increasing squared distance with -distance.
C6_PageSorted ==
    (AdminListDone /\ OrdersByDistance)
    => /\ response.status \in {HTTP_200_OK, HTTP_404_NOT_FOUND}
       /\ request.query_params.page = 1 => response.status = HTTP_200_OK
       /\ response.status = HTTP_200_OK =>
             \A i \in 1..(Len(response.results) - 1) :
                IF request.query_params.ordering = "distance"
                THEN SquaredDistance(response.results[i])
                         <= SquaredDistance(response.results[i + 1])
                ELSE SquaredDistance(response.results[i])
                         >= SquaredDistance(response.results[i + 1])

\* C6 (step part): when the SELECT of the first page runs and the filters
\* select a ride, the page is not empty and starts with a ride nearest to
\* the point among the selected ones (farthest with -distance).
C6_NearestFirst ==
    ( /\ pc = "counted"
      /\ pc' # "counted"
      /\ OrdersByDistance
      /\ request.query_params.page = 1
      /\ Selected # {} )
    => /\ pc' = "paged"
       /\ \A id \in Selected :
             IF request.query_params.ordering = "distance"
             THEN SquaredDistance(instances'[1]) <= SquaredDistance(ride[id])
             ELSE SquaredDistance(instances'[1]) >= SquaredDistance(ride[id])

\* C6: ordering=distance with valid lat and lng returns 200 with the rides
\* in non-decreasing squared distance, the nearest first; -distance the
\* reverse.
C6_DistanceOrder == []C6_PageSorted /\ [][C6_NearestFirst]_vars

\* A first page of two rides at different distances, nearest first.
C6_Witness ==
    /\ AdminListDone
    /\ request.query_params.ordering = "distance"
    /\ request.query_params.lat = "10"
    /\ request.query_params.lng = "0"
    /\ response.status = HTTP_200_OK
    /\ Len(response.results) = 2
    /\ SquaredDistance(response.results[1])
          < SquaredDistance(response.results[2])

\* lat or lng is present and is not a finite number.
MalformedCoordinates ==
    \/ request.query_params.lat # None /\ ~Finite(request.query_params.lat)
    \/ request.query_params.lng # None /\ ~Finite(request.query_params.lng)

\* C7 as stated: a list request with lat or lng present and not parseable as
\* a finite number is answered 400 before any statement is sent, whatever
\* its ordering.
C7_AnyOrderingRejected ==
    (AdminListDone /\ MalformedCoordinates) =>
        (response.status = HTTP_400_BAD_REQUEST /\ queries = 0)

\* C7 as amended: when 'distance' occurs in the ordering value and lat or lng
\* is present but float() cannot parse it, the request is answered 400 with
\* an error body before any statement is sent; with any other ordering the
\* value is ignored and the request is not answered 400; a value float()
\* parses to a non-finite number ('nan', 'inf') is accepted.
C7_DistanceOrderingRejected ==
    AdminListDone =>
        /\ ( /\ MentionsDistance(request.query_params.ordering)
             /\ \/ /\ request.query_params.lat # None
                   /\ ~Parseable(request.query_params.lat)
                \/ /\ request.query_params.lng # None
                   /\ ~Parseable(request.query_params.lng) )
           => /\ response.status = HTTP_400_BAD_REQUEST
              /\ response.error
              /\ response.results = << >>
              /\ queries = 0
        /\ ~MentionsDistance(request.query_params.ordering)
           => response.status # HTTP_400_BAD_REQUEST
        /\ ( /\ request.query_params.lat # None
             /\ request.query_params.lng # None
             /\ Parseable(request.query_params.lat)
             /\ Parseable(request.query_params.lng) )
           => response.status # HTTP_400_BAD_REQUEST

\* ordering=distance with lat=abc, refused.
C7_Witness ==
    /\ AdminListDone
    /\ request.query_params.ordering = "distance"
    /\ request.query_params.lat = "abc"
    /\ request.query_params.lng = "0"
    /\ response.status = HTTP_400_BAD_REQUEST

\* The ordering parameter is given and is not one of the recognised values.
UnrecognisedOrdering ==
    /\ request.query_params.ordering # None
    /\ request.query_params.ordering \notin ValidTerms

\* C8: a list request whose ordering is not one of the recognised values is
\* answered 400 and returns no results; it is never answered with a 200
\* page.
C8_UnrecognisedRejected ==
    (AdminListDone /\ UnrecognisedOrdering) =>
        (response.status = HTTP_400_BAD_REQUEST /\ response.results = << >>)

\* C10: in a list request the threshold of the windowed event query equals
\* the threshold handed to the serializer context.
C10_OneThreshold ==
    (Done("list") /\ response.status = HTTP_200_OK) =>
        (context.has_threshold
            /\ context.todays_threshold = queryset.threshold)

====
